---- MODULE Spec2Model ----
(***************************************************************************)
(* Athlete search / featured endpoints (src/app/api/athletes.py), the      *)
(* soft-delete base model (src/app/models/base.py) and the response cache  *)
(* wrapper that decorates the two endpoints.                               *)
(*                                                                         *)
(* Query-string values are Python str objects.  They are modelled as       *)
(* sequences of one-character strings so that int(), str.isdigit() and     *)
(* str.lower() are computed character by character.                        *)
(***************************************************************************)
EXTENDS Integers, Sequences, FiniteSets, TLC

VARIABLES rows, cache, resp, debug, served, committed, pending, call

vars == <<rows, cache, resp, debug, served, committed, pending, call>>

---------------------------------------------------------------------------
(* Bounds of the exploration                                               *)

\* number of athlete profiles that may exist
NumProfiles == 2

\* seconds that pass in one step of the clock
TickStep == 30

\* number of cache entries alive at the same time
MaxCached == 1

\* entities of the class without a soft-delete flag
NumSports == 1

---------------------------------------------------------------------------
(* Python str / int helpers                                                *)

DigitChars == <<"0", "1", "2", "3", "4", "5", "6", "7", "8", "9">>

LowerAlpha == <<"a", "b", "c", "d", "e", "f", "g", "h", "i", "j", "k", "l", "m",
                "n", "o", "p", "q", "r", "s", "t", "u", "v", "w", "x", "y", "z">>

UpperAlpha == <<"A", "B", "C", "D", "E", "F", "G", "H", "I", "J", "K", "L", "M",
                "N", "O", "P", "Q", "R", "S", "T", "U", "V", "W", "X", "Y", "Z">>

IsDigitChar(c) == \E i \in 1..Len(DigitChars) : DigitChars[i] = c

DigitVal(c) == (CHOOSE i \in 1..Len(DigitChars) : DigitChars[i] = c) - 1

\* str.isdigit(): non-empty and every character a digit
isdigit(s) == Len(s) > 0 /\ \A i \in 1..Len(s) : IsDigitChar(s[i])

RECURSIVE DigitsValue(_)
DigitsValue(s) ==
    IF s = <<>> THEN 0
    ELSE 10 * DigitsValue(SubSeq(s, 1, Len(s) - 1)) + DigitVal(s[Len(s)])

LowerChar(c) ==
    IF \E i \in 1..Len(UpperAlpha) : UpperAlpha[i] = c
    THEN LowerAlpha[CHOOSE i \in 1..Len(UpperAlpha) : UpperAlpha[i] = c]
    ELSE c

UpperChar(c) ==
    IF \E i \in 1..Len(LowerAlpha) : LowerAlpha[i] = c
    THEN UpperAlpha[CHOOSE i \in 1..Len(LowerAlpha) : LowerAlpha[i] = c]
    ELSE c

\* str.lower() / str.upper()
lower(s) == [i \in 1..Len(s) |-> LowerChar(s[i])]

upper(s) == [i \in 1..Len(s) |-> UpperChar(s[i])]

\* A raised exception e, with str(e) (the literal the real message quotes is left out)
Raise(m) == [raised |-> TRUE, msg |-> m]

Return(v) == [raised |-> FALSE, val |-> v]

\* the digits of an int literal, after its sign
int_digits(body, sign) ==
    IF isdigit(body) THEN Return(sign * DigitsValue(body))
    ELSE Raise("invalid literal for int() with base 10")

\* int(s) for a str: optional sign, then one or more digits; anything else
\* (the empty string, letters) raises ValueError
int(s) ==
    IF Len(s) > 0 /\ s[1] = "-" THEN int_digits(Tail(s), 0 - 1)
    ELSE IF Len(s) > 0 /\ s[1] = "+" THEN int_digits(Tail(s), 1)
    ELSE int_digits(s, 1)

\* key in params
Has(params, key) == key \in DOMAIN params

min(a, b) == IF a <= b THEN a ELSE b

---------------------------------------------------------------------------
(* datetime.date                                                           *)

Date(y, m, d) == [y |-> y, m |-> m, d |-> d]

\* a datetime.datetime value (a datetime.date value is Date(y, m, d))
DateTime(y, m, d, hh, mi, ss) == [y |-> y, m |-> m, d |-> d, hh |-> hh, mi |-> mi, ss |-> ss]

IsLeap(y) == (y % 4 = 0 /\ y % 100 # 0) \/ y % 400 = 0

\* date.replace(year=y): ValueError when the year is outside 1..9999 or the
\* day does not exist in that year (29 February of a non-leap year)
replace_year(dt, y) ==
    IF y < 1 \/ y > 9999 THEN Raise("year is out of range")
    ELSE IF dt.m = 2 /\ dt.d = 29 /\ ~IsLeap(y) THEN Raise("day is out of range for month")
    ELSE Return(Date(y, dt.m, dt.d))

DateLE(a, b) ==
    \/ a.y < b.y
    \/ a.y = b.y /\ a.m < b.m
    \/ a.y = b.y /\ a.m = b.m /\ a.d <= b.d

\* the values date.today() takes in the requests explored
Dates == {Date(2025, 6, 15), Date(2024, 2, 29)}

---------------------------------------------------------------------------
(* The rows an AthleteProfile (joined with its User and Sport) can hold.   *)
(* A nullable column is [null, n]; names and codes are strings.            *)

Null == [null |-> TRUE, n |-> 0]

NotNull(n) == [null |-> FALSE, n |-> n]

ProfileIds == 1..NumProfiles

SportCodes == << <<"N", "B", "A">>, <<"N", "F", "L">> >>

LastNames == << <<"L", "e", "e">>, <<"A", "d", "a">>, <<"L", "e", "e">> >>

FirstNames == << <<"B", "o">>, <<"C", "y">>, <<"A", "l">> >>

AthleteProfile(i) ==
    [athlete_id        |-> i,
     primary_sport_id  |-> ((i - 1) % 2) + 1,
     sport_code        |-> SportCodes[((i - 1) % 2) + 1],
     height_cm         |-> IF i % 3 = 0 THEN Null ELSE NotNull(210 - 10 * (i % 3)),
     date_of_birth     |-> Date(1996 - i, 6, 15),
     created_at        |-> DateTime(2024, 1, i, 9, 30, 0),
     overall_rating    |-> IF i % 4 = 0 THEN Null ELSE NotNull(80 + 10 * (i % 2)),
     last_name         |-> LastNames[((i - 1) % 3) + 1],
     first_name        |-> FirstNames[((i - 1) % 3) + 1],
     is_featured       |-> i % 3 # 0,
     contract_active   |-> i % 2 = 0,
     \* whether reading the row's columns in to_dict succeeds
     readable          |-> i % 2 = 1]

\* rows[i]: "absent" (no row), "live" (is_deleted = False), "deleted" (is_deleted = True)
RowStates == {"absent", "live", "deleted"}

---------------------------------------------------------------------------
(* SQLAlchemy Query objects: the filter_by pairs, the criteria of          *)
(* filter(), the LIMIT and whether order_by() was applied.                 *)

Criterion(kind, arg) == [kind |-> kind, arg |-> arg]

\* ILIKE with a pattern that holds no % or _: equality, letter case ignored
ilike(value, pattern) == lower(value) = lower(pattern)

\* one criterion evaluated on a row; a comparison with NULL is not true
Satisfies(p, c) ==
    CASE c.kind = "primary_sport_id ==" -> p.primary_sport_id = c.arg
      [] c.kind = "Sport.code ilike"    -> ilike(p.sport_code, c.arg)
      [] c.kind = "Sport.code =="       -> p.sport_code = c.arg
      [] c.kind = "date_of_birth <="    -> DateLE(p.date_of_birth, c.arg)
      [] c.kind = "date_of_birth >="    -> DateLE(c.arg, p.date_of_birth)
      [] c.kind = "height_cm >="        -> ~p.height_cm.null /\ p.height_cm.n >= c.arg
      [] c.kind = "height_cm <="        -> ~p.height_cm.null /\ p.height_cm.n <= c.arg
      [] c.kind = "contract_active is False" -> ~p.contract_active

\* Query.limit(n)
query_limit(query, n) == [query EXCEPT !.limit = NotNull(n)]

\* Query.filter(): refused on a query that already has a LIMIT
query_filter(query, criteria) ==
    IF ~query.limit.null
    THEN Raise("Query.filter() being called on a Query which already has LIMIT or OFFSET applied")
    ELSE Return([query EXCEPT !.criteria = @ \o criteria])

\* Query.order_by(): refused on a query that already has a LIMIT
query_order_by(query) ==
    IF ~query.limit.null
    THEN Raise("Query.order_by() being called on a Query which already has LIMIT or OFFSET applied")
    ELSE Return([query EXCEPT !.ordered = TRUE])

---------------------------------------------------------------------------
(* AthleteSearchOptimized.build_search_query                               *)

\* AthleteProfile.query.filter_by(is_deleted=False).join(User)...
search_base_query ==
    [filter_by |-> {<<"is_deleted", FALSE>>}, criteria |-> <<>>, limit |-> Null,
     ordered |-> FALSE]

\* params.get(key): the value, or None (modelled as the empty, falsy str)
dict_get(params, key) == IF Has(params, key) THEN params[key] ELSE <<>>

\* what MultiDict.get(key, type=int) would return: the int, or None when
\* the key is missing or its value is no integer
multidict_get_typed(params, key) ==
    IF Has(params, key) /\ ~int(params[key]).raised
    THEN Return(NotNull(int(params[key]).val))
    ELSE Return(Null)

\* params.get(key, type=int): params is the plain dict of
\* request.args.to_dict(), and dict.get() takes no keyword arguments
dict_get_typed(params, key) == Raise("get() takes no keyword arguments")

\* sport filter: a numeric id or a code
sport_criteria(sport) ==
    IF sport = <<>> THEN <<>>
    ELSE IF isdigit(sport)
         THEN <<Criterion("primary_sport_id ==", int(sport).val)>>
         ELSE <<Criterion("Sport.code ilike", sport)>>

sport_filter(params) == sport_criteria(dict_get(params, "sport"))

\* filters.append(AthleteProfile.date_of_birth <= cutoff) (or >=)
cutoff_criteria(cutoff, kind) ==
    IF cutoff.raised THEN cutoff ELSE Return(<<Criterion(kind, cutoff.val)>>)

\* one age bound: the birth-date cutoff is today with the year reduced
age_criteria(age, kind, today) ==
    IF age.raised THEN age
    ELSE IF age.val.null THEN Return(<<>>)
    ELSE cutoff_criteria(replace_year(today, today.y - age.val.n), kind)

age_bound(params, key, kind, today) ==
    age_criteria(dict_get_typed(params, key), kind, today)

\* a step of the try block: the criteria so far, or the exception raised
then_criteria(sofar, more) ==
    IF sofar.raised THEN sofar
    ELSE IF more.raised THEN more
    ELSE Return(sofar.val \o more.val)

age_filters(params, today) ==
    then_criteria(age_bound(params, "min_age", "date_of_birth <=", today),
                  age_bound(params, "max_age", "date_of_birth >=", today))

\* filters.append(AthleteProfile.height_cm >= int(params['min_height'])) (or <=)
height_criteria(n, kind) ==
    IF n.raised THEN n ELSE Return(<<Criterion(kind, n.val)>>)

\* one height bound: applied when the value is a non-empty string
height_bound(params, key, kind) ==
    IF dict_get(params, key) = <<>> THEN Return(<<>>)
    ELSE height_criteria(int(params[key]), kind)

height_filters(params) ==
    then_criteria(height_bound(params, "min_height", "height_cm >="),
                  height_bound(params, "max_height", "height_cm <="))

TopLimit == 10

\* the filter tab: a sport code, "available", or "top" (which limits the query)
tab_criteria(tab) ==
    IF tab \in {<<"n", "b", "a">>, <<"n", "f", "l">>, <<"m", "l", "b">>, <<"n", "h", "l">>}
    THEN <<Criterion("Sport.code ==", upper(tab))>>
    ELSE IF tab = <<"a", "v", "a", "i", "l", "a", "b", "l", "e">>
    THEN <<Criterion("contract_active is False", TRUE)>>
    ELSE <<>>

tab_query(tab, query) ==
    IF tab = <<"t", "o", "p">> THEN query_limit(query, TopLimit) ELSE query

filter_tab(params) == lower(IF Has(params, "filter") THEN params["filter"] ELSE <<>>)

\* if filters: query = query.filter(and_(*filters))
apply_filters(query, filters) ==
    IF filters # <<>> THEN query_filter(query, filters) ELSE Return(query)

\* query = query.order_by(...)
apply_order(filtered) ==
    IF filtered.raised THEN filtered ELSE query_order_by(filtered.val)

\* the statements after the filters were collected without an exception
finish_query(filters, tab) ==
    IF filters.raised THEN filters
    ELSE apply_order(apply_filters(tab_query(tab, search_base_query),
                                   filters.val \o tab_criteria(tab)))

\* the whole builder; the except clause logs and re-raises
build_search_query(params, today) ==
    finish_query(then_criteria(then_criteria(Return(sport_filter(params)),
                                             age_filters(params, today)),
                               height_filters(params)),
                 filter_tab(params))

---------------------------------------------------------------------------
(* Executing a query on the table                                          *)

\* the rows a query selects: present in the table, filter_by pairs equal,
\* every criterion true
Selected(query, rws) ==
    {i \in ProfileIds :
        /\ rws[i] # "absent"
        /\ \A fb \in query.filter_by :
              /\ fb[1] = "is_deleted"  => ((rws[i] = "deleted") = fb[2])
              /\ fb[1] = "is_featured" => (AthleteProfile(i).is_featured = fb[2])
        /\ \A k \in 1..Len(query.criteria) :
              Satisfies(AthleteProfile(i), query.criteria[k])}

Ord(c) ==
    IF \E i \in 1..Len(UpperAlpha) : UpperAlpha[i] = c
    THEN CHOOSE i \in 1..Len(UpperAlpha) : UpperAlpha[i] = c
    ELSE Len(UpperAlpha) + (CHOOSE i \in 1..Len(LowerAlpha) : LowerAlpha[i] = c)

\* a < b for two names, character by character
RECURSIVE StrLess(_, _)
StrLess(a, b) ==
    IF b = <<>> THEN FALSE
    ELSE IF a = <<>> THEN TRUE
    ELSE IF Ord(Head(a)) # Ord(Head(b)) THEN Ord(Head(a)) < Ord(Head(b))
    ELSE StrLess(Tail(a), Tail(b))

\* ORDER BY overall_rating DESC NULLS LAST, last_name, first_name
\* (rows equal on all three come in the order of their ids)
RowBefore(p, q) ==
    IF p.overall_rating.null # q.overall_rating.null THEN q.overall_rating.null
    ELSE IF ~p.overall_rating.null /\ p.overall_rating.n # q.overall_rating.n
         THEN p.overall_rating.n > q.overall_rating.n
    ELSE IF p.last_name # q.last_name THEN StrLess(p.last_name, q.last_name)
    ELSE IF p.first_name # q.first_name THEN StrLess(p.first_name, q.first_name)
    ELSE p.athlete_id < q.athlete_id

Before(i, j) == RowBefore(AthleteProfile(i), AthleteProfile(j))

RECURSIVE Ordered(_)
OrderedFrom(first, ids) == <<first>> \o Ordered(ids \ {first})

Ordered(ids) ==
    IF ids = {} THEN <<>>
    ELSE OrderedFrom(CHOOSE i \in ids : \A j \in ids \ {i} : Before(i, j), ids)

Take(seq, n) == SubSeq(seq, 1, min(n, Len(seq)))

Drop(seq, n) == SubSeq(seq, n + 1, Len(seq))

\* the Pagination object: items, page, total, pages, has_next, has_prev
Pagination(all, total, pg, pp) ==
    [items    |-> Take(Drop(all, (pg - 1) * pp), pp),
     page     |-> pg,
     per_page |-> pp,
     total    |-> total,
     pages    |-> (total + pp - 1) \div pp,
     has_next |-> pg < (total + pp - 1) \div pp,
     has_prev |-> pg > 1]

\* the rows counted and read: the total counts the query as built, the
\* items are read with limit(per_page).offset(...), which replaces the
\* query's own LIMIT
paginate_rows(all, query, pg, pp) ==
    Pagination(all, IF query.limit.null THEN Len(all) ELSE min(Len(all), query.limit.n),
               pg, pp)

\* the page size paginate() uses: capped, and 20 when below range
paginate_size(size) == IF size < 1 THEN 20 ELSE size

\* Query.paginate(page, per_page, error_out=False, max_per_page): the page
\* falls back to 1 when below range
paginate(query, rws, page, per_page, max_per_page, db_up) ==
    IF ~db_up THEN Raise("could not connect to server")
    ELSE Return(paginate_rows(Ordered(Selected(query, rws)), query,
                              IF page < 1 THEN 1 ELSE page,
                              paginate_size(min(per_page, max_per_page))))

---------------------------------------------------------------------------
(* BaseModel.to_dict                                                       *)

\* the decimal digits of n, padded with zeros to width characters
RECURSIVE zfill(_, _)
zfill(n, width) ==
    IF width = 0 THEN <<>>
    ELSE zfill(n \div 10, width - 1) \o <<DigitChars[(n % 10) + 1]>>

\* a str value held in a dict
PyStr(chars) == [str |-> chars]

\* the characters YYYY-MM-DD
iso_date(d) == zfill(d.y, 4) \o <<"-">> \o zfill(d.m, 2) \o <<"-">> \o zfill(d.d, 2)

\* datetime.isoformat(): YYYY-MM-DDTHH:MM:SS
isoformat(dt) ==
    PyStr(iso_date(dt) \o <<"T">> \o zfill(dt.hh, 2) \o <<":">> \o zfill(dt.mi, 2)
              \o <<":">> \o zfill(dt.ss, 2))

Column(name, type, value) == [name |-> name, type |-> type, value |-> value]

\* self.__table__.columns with getattr(self, column.name)
columns(i, rws) ==
    << Column("athlete_id", "Integer", i),
       Column("is_deleted", "Boolean", rws[i] = "deleted"),
       Column("height_cm", "Integer", AthleteProfile(i).height_cm),
       Column("date_of_birth", "Date", AthleteProfile(i).date_of_birth),
       Column("created_at", "DateTime", AthleteProfile(i).created_at) >>

\* isinstance(value, datetime): true of the values of DateTime columns,
\* false of the datetime.date values of Date columns
isinstance_datetime(column) == column.type = "DateTime"

\* the value stored under the column's name
column_value(column) ==
    IF isinstance_datetime(column) THEN isoformat(column.value) ELSE column.value

\* the dict built by the loop over the columns
columns_dict(cols) ==
    [name \in {cols[k].name : k \in 1..Len(cols)} |->
        column_value(cols[CHOOSE k \in 1..Len(cols) : cols[k].name = name])]

\* one key per column; a failure while reading the columns is caught inside
\* to_dict, which then returns the empty dict
to_dict(i, rws) ==
    IF AthleteProfile(i).readable THEN columns_dict(columns(i, rws)) ELSE << >>

---------------------------------------------------------------------------
(* AthleteSearch.get                                                       *)

\* the except clause with the DEBUG test lost: str(e) always in the body
search_failed_leaky(msg, dbg) ==
    [status  |-> 500,
     body    |-> [error |-> "Search failed", message |-> msg],
     queried |-> FALSE]

\* the except clause of the handler
search_failed(msg, dbg) ==
    [status  |-> 500,
     body    |-> [error |-> "Search failed",
                  message |-> IF dbg THEN msg ELSE "Internal error"],
     queried |-> FALSE]

\* the loop over pagination.items
search_results(items, rws) == [k \in 1..Len(items) |-> to_dict(items[k], rws)]

\* return jsonify({...})
search_response(page, pagination, results) ==
    [status  |-> 200,
     body    |-> [results  |-> results,
                  count    |-> Len(results),
                  total    |-> pagination.total,
                  page     |-> page,
                  pages    |-> pagination.pages,
                  has_next |-> pagination.has_next,
                  has_prev |-> pagination.has_prev],
     queried |-> TRUE]

\* after query.paginate(...)
search_paginated(page, pagination, rws, dbg) ==
    IF pagination.raised
    THEN [search_failed(pagination.msg, dbg) EXCEPT !.queried = TRUE]
    ELSE search_response(page, pagination.val,
                         search_results(pagination.val.items, rws))

\* after build_search_query(params)
search_query(page, per_page, query, rws, db_up, dbg) ==
    IF query.raised THEN search_failed(query.msg, dbg)
    ELSE search_paginated(page, paginate(query.val, rws, page, per_page, 100, db_up),
                          rws, dbg)

\* after page and per_page were read
search_paged(page, size, params, rws, today, db_up, dbg) ==
    IF page.raised THEN search_failed(page.msg, dbg)
    ELSE IF size.raised THEN search_failed(size.msg, dbg)
    ELSE search_query(page.val, min(size.val, 100), build_search_query(params, today),
                      rws, db_up, dbg)

AthleteSearch_get(params, rws, today, db_up, dbg) ==
    search_paged(IF Has(params, "page") THEN int(params["page"]) ELSE Return(1),
                 IF Has(params, "per_page") THEN int(params["per_page"]) ELSE Return(50),
                 params, rws, today, db_up, dbg)

---------------------------------------------------------------------------
(* FeaturedAthletes.get                                                    *)

\* request.args.get(key, default, type=int) on the MultiDict request.args:
\* the default when the key is missing or its value is no integer
args_get_int(args, key, default) ==
    IF Has(args, key) /\ ~int(args[key]).raised THEN int(args[key]).val ELSE default

\* db.subqueryload(AthleteProfile.stats).filter(...): the loader option
\* subqueryload() returns has no attribute filter
subqueryload_filter == Raise("'Load' object has no attribute 'filter'")

\* the except clause of the handler
featured_failed(msg, dbg) ==
    [status  |-> 500,
     body    |-> [error |-> "Failed to get featured athletes",
                  message |-> IF dbg THEN msg ELSE "Internal error"],
     queried |-> FALSE]

\* ORDER BY overall_rating DESC (PostgreSQL, the configured database, puts
\* NULL first; equal ratings come in the order of their ids)
FeaturedRowBefore(p, q) ==
    IF p.overall_rating.null # q.overall_rating.null THEN p.overall_rating.null
    ELSE IF ~p.overall_rating.null /\ p.overall_rating.n # q.overall_rating.n
         THEN p.overall_rating.n > q.overall_rating.n
    ELSE p.athlete_id < q.athlete_id

FeaturedBefore(i, j) == FeaturedRowBefore(AthleteProfile(i), AthleteProfile(j))

RECURSIVE FeaturedOrdered(_)
FeaturedOrderedFrom(first, ids) == <<first>> \o FeaturedOrdered(ids \ {first})

FeaturedOrdered(ids) ==
    IF ids = {} THEN <<>>
    ELSE FeaturedOrderedFrom(CHOOSE i \in ids : \A j \in ids \ {i} : FeaturedBefore(i, j), ids)

\* the dict appended for one athlete; an athlete whose processing raises is skipped
featured_item(p) ==
    IF p.readable
    THEN <<[id |-> p.athlete_id, sport |-> p.sport_code, rating |-> p.overall_rating]>>
    ELSE <<>>

\* the loop over the athletes
RECURSIVE featured_items(_)
featured_items(athletes) ==
    IF athletes = <<>> THEN <<>>
    ELSE featured_item(AthleteProfile(Head(athletes))) \o featured_items(Tail(athletes))

\* AthleteProfile.query.filter_by(is_deleted=False, is_featured=True)...limit(limit)
featured_query(limit) ==
    [filter_by |-> {<<"is_deleted", FALSE>>, <<"is_featured", TRUE>>},
     criteria |-> <<>>, limit |-> NotNull(limit), ordered |-> TRUE]

\* the statements after the loader options were built
featured_listed(limit, options, rws, db_up, dbg) ==
    IF options.raised THEN featured_failed(options.msg, dbg)
    ELSE IF ~db_up
    THEN [featured_failed("could not connect to server", dbg) EXCEPT !.queried = TRUE]
    ELSE IF limit < 0
    THEN [featured_failed("LIMIT must not be negative", dbg) EXCEPT !.queried = TRUE]
    ELSE [status  |-> 200,
          body    |-> featured_items(Take(FeaturedOrdered(Selected(featured_query(limit), rws)),
                                          limit)),
          queried |-> TRUE]

FeaturedAthletes_get(args, rws, db_up, dbg) ==
    featured_listed(min(args_get_int(args, "limit", 6), 20), subqueryload_filter,
                    rws, db_up, dbg)

---------------------------------------------------------------------------
(* The cache wrapper, cached(timeout): the key is the endpoint with its    *)
(* query parameters; an entry is served while its age is below its         *)
(* timeout, otherwise the handler runs and its response is stored.         *)

NoEntry == [stored |-> FALSE]

cache_key(endpoint, params) == <<endpoint, params>>

cache_fresh(entry) == entry.stored /\ entry.age < entry.timeout

cached(c, key, timeout, response) ==
    IF cache_fresh(c[key])
    THEN [status |-> c[key].status, body |-> c[key].body,
          computed |-> FALSE, queried |-> FALSE, cache |-> c]
    ELSE [status |-> response.status, body |-> response.body,
          computed |-> TRUE, queried |-> response.queried,
          cache |-> [c EXCEPT ![key] = [stored |-> TRUE, status |-> response.status,
                                        body |-> response.body, age |-> 0,
                                        timeout |-> timeout]]]

\* time passes: entries age, and an entry that reached its timeout is gone
cache_tick(c, step) ==
    [k \in DOMAIN c |->
        IF c[k].stored /\ c[k].age + step < c[k].timeout
        THEN [c[k] EXCEPT !.age = @ + step]
        ELSE NoEntry]

\* @cached(timeout=60) on AthleteSearch.get, @cached(timeout=300) on FeaturedAthletes.get
\* a timeout shorter than the minute the endpoint is meant to cache for
ShortSearchTimeout == TickStep

\* a timeout that outlasts the minute by one step of the clock
LongSearchTimeout == 3 * TickStep

SearchTimeout == 60

FeaturedTimeout == 300

---------------------------------------------------------------------------
(* The requests explored                                                   *)

SearchRequests ==
    { << >>,
      [page |-> <<"0">>, per_page |-> <<"1", "0", "1">>],
      [page |-> <<"-", "1">>],
      [page |-> <<"a", "b", "c">>],
      [per_page |-> << >>],
      [filter |-> <<"t", "o", "p">>, per_page |-> <<"5", "0">>],
      [filter |-> <<"T", "O", "P">>, sport |-> <<"N", "B", "A">>],
      [min_age |-> <<"3", "0">>],
      [max_age |-> <<"3", "0">>],
      [sport |-> <<"N", "B", "A">>, min_height |-> <<"2", "0", "0">>] }

FeaturedRequests ==
    { << >>,
      [limit |-> <<"1">>],
      [limit |-> <<"-", "1">>] }

CacheKeys ==
    {cache_key("search", p) : p \in SearchRequests}
        \cup {cache_key("featured", a) : a \in FeaturedRequests}

NoResponse == [endpoint |-> "none"]

\* the time-to-live the two endpoints are specified to cache for
SearchTtlWindow == 60

FeaturedTtlWindow == 300

TtlWindow(endpoint) == IF endpoint = "search" THEN SearchTtlWindow ELSE FeaturedTtlWindow

\* history: the response last computed for a key, remembered for the
\* endpoint's window whatever the cache does with its entry
remember(h, key, out) ==
    IF out.computed
    THEN [h EXCEPT ![key] = [stored |-> TRUE, status |-> out.status,
                             body |-> out.body, age |-> 0]]
    ELSE h

\* the mark left, for one step of the clock, by a response whose window ended
Lapsed == [stored |-> FALSE, lapsed |-> TRUE]

history_tick(h, step) ==
    [k \in DOMAIN h |->
        IF h[k].stored /\ h[k].age + step < TtlWindow(k[1])
        THEN [h[k] EXCEPT !.age = @ + step]
        ELSE IF h[k].stored THEN Lapsed
        ELSE NoEntry]

---------------------------------------------------------------------------
(* The entity layer: BaseModel objects and the session they share.         *)
(* committed is what the database holds, pending what the session sees     *)
(* (committed plus the changes not yet committed), call the last call      *)
(* and its outcome.                                                        *)

\* an entity class with the is_deleted column and one without it
\* (BaseModel itself declares created_at and updated_at only)
Classes == {"AthleteProfile", "Sport"}

hasattr_is_deleted(cls) == cls = "AthleteProfile"

Entities ==
    {<<"AthleteProfile", i>> : i \in ProfileIds}
        \cup {<<"Sport", n>> : n \in 1..NumSports}

EntityStates(e) == IF hasattr_is_deleted(e[1]) THEN RowStates ELSE {"absent", "live"}

NoCall == [op |-> "none"]

\* db.session.rollback(): the changes not yet committed are discarded
rollback(cmt) == cmt

\* db.session.add(self)
session_add(pnd, e) == [pnd EXCEPT ![e] = IF @ = "absent" THEN "live" ELSE @]

\* the try block of BaseModel.delete
delete_change(pnd, e, soft) ==
    IF soft /\ hasattr_is_deleted(e[1])
    THEN [pnd EXCEPT ![e] = "deleted"]
    ELSE [pnd EXCEPT ![e] = "absent"]

\* db.session.commit() of the changed session, or the except clause when
\* the commit raises: rollback, log, re-raise
commit_or_rollback(op, e, arg, changed, fault) ==
    /\ committed' = IF fault THEN committed ELSE changed
    /\ pending' = IF fault THEN rollback(committed) ELSE changed
    /\ call' = [op |-> op, entity |-> e, arg |-> arg, raised |-> fault,
                db_error |-> fault, rolled_back |-> fault]

\* BaseModel.save(commit)
ModelSave(e, commit, fault) ==
    /\ pending[e] # "deleted"
    /\ IF commit
       THEN commit_or_rollback("save", e, commit, session_add(pending, e), fault)
       ELSE /\ ~fault
            /\ pending' = session_add(pending, e)
            /\ call' = [op |-> "save", entity |-> e, arg |-> commit, raised |-> FALSE,
                        db_error |-> FALSE, rolled_back |-> FALSE]
            /\ UNCHANGED committed
    /\ UNCHANGED <<rows, cache, resp, debug, served>>

\* BaseModel.delete(soft) on a persistent object
ModelDelete(e, soft, fault) ==
    /\ committed[e] # "absent"
    /\ pending[e] # "absent"
    /\ commit_or_rollback("delete", e, soft, delete_change(pending, e, soft), fault)
    /\ UNCHANGED <<rows, cache, resp, debug, served>>

\* BaseModel.bulk_insert(records): the rows are inserted, then committed
bulk_insert(cls, records, fault) ==
    /\ records # {}
    /\ \A e \in records : e[1] = cls /\ pending[e] = "absent"
    /\ commit_or_rollback("bulk_insert", records, cls,
                          [e \in Entities |-> IF e \in records THEN "live" ELSE pending[e]],
                          fault)
    /\ UNCHANGED <<rows, cache, resp, debug, served>>

\* BaseModel.bulk_update(records): mappings that set is_deleted on existing rows
bulk_update(cls, records, is_deleted, fault) ==
    /\ records # {}
    /\ hasattr_is_deleted(cls)
    /\ \A e \in records : e[1] = cls /\ pending[e] # "absent"
    /\ commit_or_rollback("bulk_update", records, is_deleted,
                          [e \in Entities |->
                              IF e \in records
                              THEN (IF is_deleted THEN "deleted" ELSE "live")
                              ELSE pending[e]],
                          fault)
    /\ UNCHANGED <<rows, cache, resp, debug, served>>

\* the exceptions a view function can let escape, or an endpoint's own
\* try block can raise: werkzeug HTTP exceptions (code and description),
\* a database error of the driver, and a plain Python error
Exceptions ==
    { [cls |-> "NotFound", http |-> TRUE, code |-> 404, db |-> FALSE,
       text |-> "The requested URL was not found on the server."],
      [cls |-> "Forbidden", http |-> TRUE, code |-> 403, db |-> FALSE,
       text |-> "You don't have the permission to access the requested resource."],
      [cls |-> "InternalServerError", http |-> TRUE, code |-> 500, db |-> FALSE,
       text |-> "The server encountered an internal error."],
      [cls |-> "OperationalError", http |-> FALSE, code |-> 0, db |-> TRUE,
       text |-> "could not connect to server"],
      [cls |-> "TypeError", http |-> FALSE, code |-> 0, db |-> FALSE,
       text |-> "get() takes no keyword arguments"] }

ApiPrefix == <<"/", "a", "p", "i", "/">>

\* request.path
Paths ==
    { <<"/", "a", "p", "i", "/", "a", "t", "h", "l", "e", "t", "e", "s">>,
      <<"/", "a", "p", "i">>,
      <<"/", "a", "t", "h", "l", "e", "t", "e", "s">> }

\* str.startswith
startswith(s, prefix) == Len(s) >= Len(prefix) /\ SubSeq(s, 1, Len(prefix)) = prefix

jsonify(body, status, rolled) ==
    [kind |-> "json", body |-> body, status |-> status, rolled_back |-> rolled]

render_template(name, status, rolled) ==
    [kind |-> "page", body |-> name, status |-> status, rolled_back |-> rolled]

\* @app.errorhandler(404)
not_found_error(error, path) ==
    IF startswith(path, ApiPrefix)
    THEN jsonify([error |-> "Resource not found"], 404, FALSE)
    ELSE render_template("errors/404.html", 404, FALSE)

\* @app.errorhandler(500)
internal_error(error, path) ==
    IF startswith(path, ApiPrefix)
    THEN jsonify([error |-> "Internal server error"], 500, TRUE)
    ELSE render_template("errors/500.html", 500, TRUE)

\* @app.errorhandler(HTTPException); the exception returned is itself the
\* response: werkzeug's page for it, with its code
handle_http_exception(e, path) ==
    IF startswith(path, ApiPrefix)
    THEN jsonify([error |-> e.text], e.code, FALSE)
    ELSE [kind |-> "page", body |-> e.text, status |-> e.code, rolled_back |-> FALSE]

\* the Exception handler with str(error) put in the body
handle_unexpected_error_leaky(error, path) ==
    IF startswith(path, ApiPrefix)
    THEN jsonify([error |-> error.text], 500, TRUE)
    ELSE render_template("errors/500.html", 500, TRUE)

\* @app.errorhandler(Exception)
handle_unexpected_error(error, path) ==
    IF startswith(path, ApiPrefix)
    THEN jsonify([error |-> "An unexpected error occurred"], 500, TRUE)
    ELSE render_template("errors/500.html", 500, TRUE)

\* the handler Flask picks: one registered for the code of an HTTP
\* exception, else the one for the nearest class
error_handler(e, path) ==
    IF e.http /\ e.code = 404 THEN not_found_error(e, path)
    ELSE IF e.http /\ e.code = 500 THEN internal_error(e, path)
    ELSE IF e.http THEN handle_http_exception(e, path)
    ELSE handle_unexpected_error(e, path)

\* an exception escapes the view function serving path
HandleException(path, e) ==
    \E out \in {error_handler(e, path)} :
        /\ call' = [op |-> "handle", path |-> path, exc |-> e, raised |-> FALSE,
                    db_error |-> e.db, rolled_back |-> out.rolled_back,
                    kind |-> out.kind, status |-> out.status, body |-> out.body]
        /\ pending' = IF out.rolled_back THEN rollback(committed) ELSE pending
        /\ UNCHANGED <<committed, rows, cache, resp, debug, served>>

\* what the try block of an endpoint can raise
EndpointFaults == {e \in Exceptions : ~e.http}

\* AthleteSearch.get when a statement of its try block raises e: the except
\* clause answers.  (As the code stands the statement that raises is the
\* typed get of build_search_query, with a TypeError; the clause is the
\* same whatever was raised.)
AthleteSearch_except(e) ==
    \E out \in {search_failed(e.text, debug)} :
        /\ call' = [op |-> "search", exc |-> e, raised |-> FALSE, db_error |-> e.db,
                    rolled_back |-> FALSE, kind |-> "json",
                    status |-> out.status, body |-> out.body]
        /\ UNCHANGED <<committed, pending, rows, cache, resp, debug, served>>

\* FeaturedAthletes.get when a statement of its try block raises e
FeaturedAthletes_except(e) ==
    \E out \in {featured_failed(e.text, debug)} :
        /\ call' = [op |-> "featured", exc |-> e, raised |-> FALSE, db_error |-> e.db,
                    rolled_back |-> FALSE, kind |-> "json",
                    status |-> out.status, body |-> out.body]
        /\ UNCHANGED <<committed, pending, rows, cache, resp, debug, served>>

\* BaseModel.to_dict() of an AthleteProfile the session holds
ToDict(i) ==
    /\ pending[<<"AthleteProfile", i>>] # "absent"
    /\ call' = [op |-> "to_dict", entity |-> <<"AthleteProfile", i>>,
                raised |-> FALSE, db_error |-> FALSE, rolled_back |-> FALSE,
                result |-> to_dict(i, [j \in ProfileIds |-> pending[<<"AthleteProfile", j>>]])]
    /\ UNCHANGED <<committed, pending, rows, cache, resp, debug, served>>

\* the values page and per_page take once parsed
PageNumbers == {-1, 0, 1, 2}

PageSizes == {1, 50, 101}

\* AthleteSearch.get from query.paginate(...) on, run on the query that the
\* first statement of build_search_query constructs.  (As the code stands
\* no request gets this far: the builder raises first.)
AthleteSearch_paginate(page, size) ==
    \E rws \in {[j \in ProfileIds |-> pending[<<"AthleteProfile", j>>]]} :
        \E pagination \in {paginate(search_base_query, rws, page, min(size, 100), 100, TRUE)} :
            \E out \in {search_paginated(page, pagination, rws, debug)} :
                /\ call' = [op |-> "paginate", page |-> page, per_page |-> min(size, 100),
                            raised |-> FALSE, db_error |-> FALSE, rolled_back |-> FALSE,
                            pagination |-> pagination.val,
                            status |-> out.status, body |-> out.body]
                /\ UNCHANGED <<committed, pending, rows, cache, resp, debug, served>>

LayerInit ==
    /\ rows = [i \in ProfileIds |-> "absent"]
    /\ cache = [k \in CacheKeys |-> NoEntry]
    /\ served = [k \in CacheKeys |-> NoEntry]
    /\ resp = NoResponse
    /\ debug \in BOOLEAN
    /\ committed = [e \in Entities |-> "absent"]
    /\ pending = committed
    /\ call = NoCall

LayerNext ==
    \/ \E e \in Entities, commit \in BOOLEAN, fault \in BOOLEAN : ModelSave(e, commit, fault)
    \/ \E e \in Entities, soft \in BOOLEAN, fault \in BOOLEAN : ModelDelete(e, soft, fault)
    \/ \E cls \in Classes, fault \in BOOLEAN :
          \E records \in SUBSET Entities : bulk_insert(cls, records, fault)
    \/ \E cls \in Classes, is_deleted \in BOOLEAN, fault \in BOOLEAN :
          \E records \in SUBSET Entities : bulk_update(cls, records, is_deleted, fault)
    \/ \E i \in ProfileIds : ToDict(i)
    \/ \E page \in PageNumbers, size \in PageSizes : AthleteSearch_paginate(page, size)
    \/ \E path \in Paths, e \in Exceptions : HandleException(path, e)
    \/ \E e \in EndpointFaults : AthleteSearch_except(e)
    \/ \E e \in EndpointFaults : FeaturedAthletes_except(e)

LayerSpec == LayerInit /\ [][LayerNext]_vars

---------------------------------------------------------------------------
(* State machine                                                           *)

Init ==
    /\ rows \in [ProfileIds -> RowStates]
    /\ cache = [k \in CacheKeys |-> NoEntry]
    /\ resp = NoResponse
    /\ debug \in BOOLEAN
    /\ served = [k \in CacheKeys |-> NoEntry]
    /\ committed = [e \in Entities |-> "absent"]
    /\ pending = committed
    /\ call = NoCall

\* BaseModel.save(): session.add and commit insert the row
Save(i) ==
    /\ rows[i] = "absent"
    /\ rows' = [rows EXCEPT ![i] = "live"]
    /\ resp' = NoResponse
    /\ UNCHANGED <<cache, debug, served, committed, pending, call>>

\* BaseModel.delete(soft): the flag is set, or the row is removed
Delete(i, soft) ==
    /\ rows[i] # "absent"
    /\ rows' = [rows EXCEPT ![i] = IF soft THEN "deleted" ELSE "absent"]
    /\ resp' = NoResponse
    /\ UNCHANGED <<cache, debug, served, committed, pending, call>>

\* the exploration keeps at most MaxCached keys in use at a time
CacheRoom(key) ==
    \/ cache[key].stored
    \/ served[key].stored
    \/ served[key] = Lapsed
    \/ Cardinality({k \in CacheKeys : cache[k].stored \/ served[k].stored
                                        \/ served[k] = Lapsed}) < MaxCached

\* GET /api/athletes/search
Search(params) ==
    /\ CacheRoom(cache_key("search", params))
    /\ \E today \in Dates, db_up \in BOOLEAN :
        \E out \in {cached(cache, cache_key("search", params), SearchTimeout,
                            AthleteSearch_get(params, rows, today, db_up, debug))} :
            /\ cache' = out.cache
            /\ resp' = [endpoint |-> "search", params |-> params, today |-> today,
                        status |-> out.status, body |-> out.body,
                        computed |-> out.computed, queried |-> out.queried,
                        prior |-> served[cache_key("search", params)]]
            /\ served' = remember(served, cache_key("search", params), out)
            /\ UNCHANGED <<rows, debug, committed, pending, call>>

\* GET /api/athletes/featured
Featured(args) ==
    /\ CacheRoom(cache_key("featured", args))
    /\ \E db_up \in BOOLEAN :
        \E out \in {cached(cache, cache_key("featured", args), FeaturedTimeout,
                            FeaturedAthletes_get(args, rows, db_up, debug))} :
            /\ cache' = out.cache
            /\ resp' = [endpoint |-> "featured", params |-> args,
                        status |-> out.status, body |-> out.body,
                        computed |-> out.computed, queried |-> out.queried,
                        prior |-> served[cache_key("featured", args)]]
            /\ served' = remember(served, cache_key("featured", args), out)
            /\ UNCHANGED <<rows, debug, committed, pending, call>>

\* the clock advances
Tick ==
    /\ \E k \in CacheKeys : cache[k].stored \/ served[k].stored \/ served[k] = Lapsed
    /\ cache' = cache_tick(cache, TickStep)
    /\ served' = history_tick(served, TickStep)
    /\ resp' = NoResponse
    /\ UNCHANGED <<rows, debug, committed, pending, call>>

Next ==
    \/ \E i \in ProfileIds : Save(i)
    \/ \E i \in ProfileIds, soft \in BOOLEAN : Delete(i, soft)
    \/ \E params \in SearchRequests : Search(params)
    \/ \E args \in FeaturedRequests : Featured(args)
    \/ Tick

Spec == Init /\ [][Next]_vars

---------------------------------------------------------------------------
(* Reading a response                                                      *)

IsRequest(r) == r.endpoint \in {"search", "featured"}

IsSearch(r) == r.endpoint = "search"

\* the athlete ids a response carries (an error envelope carries none)
ResponseIds(r) ==
    IF r.endpoint = "search" /\ r.status = 200
    THEN {r.body.results[k].athlete_id :
             k \in {n \in 1..Len(r.body.results) : "athlete_id" \in DOMAIN r.body.results[n]}}
    ELSE IF r.endpoint = "featured" /\ r.status = 200
    THEN {r.body[k].id : k \in 1..Len(r.body)}
    ELSE {}

\* a query parameter that is present and parses as an integer
IsIntParam(params, key) == Has(params, key) /\ ~int(params[key]).raised

IntParam(params, key) == int(params[key]).val

---------------------------------------------------------------------------
C2_CachedWithinTtl ==
    (IsRequest(resp) /\ resp.prior.stored /\ resp.prior.age < TtlWindow(resp.endpoint))
        => /\ ~resp.computed
           /\ ~resp.queried
           /\ resp.status = resp.prior.status
           /\ resp.body = resp.prior.body

\* a second identical search request arriving strictly inside the window
C2_Witness ==
    /\ IsSearch(resp)
    /\ resp.prior.stored
    /\ resp.prior.age > 0
    /\ resp.prior.age < SearchTtlWindow
    /\ ~resp.computed

(* C3: a search whose per_page is an integer above 100 succeeds and its    *)
(* results list holds at most 100 items.                                   *)
C3_PerPageClamped ==
    (IsSearch(resp) /\ IsIntParam(resp.params, "per_page")
                    /\ IntParam(resp.params, "per_page") > 100)
        => /\ resp.status = 200
           /\ Len(resp.body.results) <= 100

(* C4: a search whose page is missing or a non-positive integer succeeds   *)
(* and the page field of its response is 1.                                *)
C4_PageDefaultsToOne ==
    (IsSearch(resp) /\ \/ ~Has(resp.params, "page")
                       \/ IsIntParam(resp.params, "page") /\ IntParam(resp.params, "page") <= 0)
        => /\ resp.status = 200
           /\ resp.body.page = 1

(* C5: a search whose page or per_page is no integer is answered with the  *)
(* search result, not with an error response.                              *)
C5_MalformedFailsClosed ==
    (IsSearch(resp) /\ \/ Has(resp.params, "page") /\ ~IsIntParam(resp.params, "page")
                       \/ Has(resp.params, "per_page") /\ ~IsIntParam(resp.params, "per_page"))
        => resp.status = 200

(* C6: a search with filter=top, in any letter case, succeeds and returns  *)
(* at most 10 results whatever page, per_page and other filters are.       *)
C6_TopAtMostTen ==
    (IsSearch(resp) /\ Has(resp.params, "filter")
                    /\ lower(resp.params["filter"]) = <<"t", "o", "p">>)
        => /\ resp.status = 200
           /\ Len(resp.body.results) <= TopLimit

(* C7: age filters are boundary inclusive.  With cutoff(n) the current     *)
(* date with its year reduced by n, a search with min_age=n returns        *)
(* exactly the non-deleted profiles born on or before cutoff(n), and a     *)
(* search with max_age=n exactly those born on or after cutoff(n); a       *)
(* profile born on cutoff(n) is in both.                                   *)
AgeCutoff(today, n) == Date(today.y - n, today.m, today.d)

BornBy(today, n) ==
    {i \in ProfileIds : rows[i] = "live"
        /\ DateLE(AthleteProfile(i).date_of_birth, AgeCutoff(today, n))}

BornSince(today, n) ==
    {i \in ProfileIds : rows[i] = "live"
        /\ DateLE(AgeCutoff(today, n), AthleteProfile(i).date_of_birth)}

C7_AgeBoundaryInclusive ==
    /\ (IsSearch(resp) /\ DOMAIN resp.params = {"min_age"} /\ IsIntParam(resp.params, "min_age"))
          => /\ resp.status = 200
             /\ resp.body.total = Cardinality(BornBy(resp.today, IntParam(resp.params, "min_age")))
             /\ ResponseIds(resp) \subseteq BornBy(resp.today, IntParam(resp.params, "min_age"))
    /\ (IsSearch(resp) /\ DOMAIN resp.params = {"max_age"} /\ IsIntParam(resp.params, "max_age"))
          => /\ resp.status = 200
             /\ resp.body.total = Cardinality(BornSince(resp.today, IntParam(resp.params, "max_age")))
             /\ ResponseIds(resp) \subseteq BornSince(resp.today, IntParam(resp.params, "max_age"))

(* C8: a search with sport=NBA and min_height=200 returns exactly the      *)
(* non-deleted athletes whose sport code is NBA and whose height is at     *)
(* least 200, by rating descending.                                        *)
NbaOver200 ==
    {i \in ProfileIds : rows[i] = "live"
        /\ AthleteProfile(i).sport_code = <<"N", "B", "A">>
        /\ ~AthleteProfile(i).height_cm.null
        /\ AthleteProfile(i).height_cm.n >= 200}

RatingDescending(results) ==
    \A a, b \in 1..Len(results) :
        (a < b /\ "athlete_id" \in DOMAIN results[a] /\ "athlete_id" \in DOMAIN results[b])
            => LET ra == AthleteProfile(results[a].athlete_id).overall_rating
                   rb == AthleteProfile(results[b].athlete_id).overall_rating
               IN  rb.null \/ (~ra.null /\ ra.n >= rb.n)

C8_SportAndHeight ==
    (IsSearch(resp) /\ resp.params = [sport |-> <<"N", "B", "A">>, min_height |-> <<"2", "0", "0">>])
        => /\ resp.status = 200
           /\ resp.body.total = Cardinality(NbaOver200)
           /\ ResponseIds(resp) \subseteq NbaOver200
           /\ RatingDescending(resp.body.results)

(* C9: when the serialization of one athlete of a page fails, the          *)
(* response is still a success, the failed athlete contributes no entry    *)
(* to the list and the other athletes of the page are returned.            *)
C9_FailedItemSkipped ==
    /\ (IsSearch(resp) /\ resp.params = << >> /\ resp.computed
                       /\ \E i \in ProfileIds : rows[i] = "live" /\ ~AthleteProfile(i).readable)
          => /\ resp.status = 200
             /\ \A k \in 1..Len(resp.body.results) : resp.body.results[k] # << >>
             /\ ResponseIds(resp) = {i \in ProfileIds : rows[i] = "live" /\ AthleteProfile(i).readable}
    /\ (resp.endpoint = "featured" /\ resp.params = << >> /\ resp.computed
                       /\ \E i \in ProfileIds : rows[i] = "live" /\ ~AthleteProfile(i).readable
                                                 /\ AthleteProfile(i).is_featured)
          => /\ resp.status = 200
             /\ ResponseIds(resp) = {i \in ProfileIds : rows[i] = "live" /\ AthleteProfile(i).readable
                                                        /\ AthleteProfile(i).is_featured}

(* C10: when building the search query raises, the response is HTTP 500    *)
(* with error 'Search failed' and a message that is the text of the        *)
(* exception when DEBUG is set and 'Internal error' when it is not.        *)
C10_FailureEnvelope ==
    IsSearch(resp) => \A built \in {build_search_query(resp.params, resp.today)} :
        (resp.computed /\ built.raised
            /\ (Has(resp.params, "page") => IsIntParam(resp.params, "page"))
            /\ (Has(resp.params, "per_page") => IsIntParam(resp.params, "per_page")))
        => /\ resp.status = 500
           /\ resp.body.error = "Search failed"
           /\ resp.body.message = IF debug THEN built.msg ELSE "Internal error"
           /\ built.msg # "Internal error"

\* a failed search answered with DEBUG off
C10_Witness ==
    /\ IsSearch(resp)
    /\ resp.computed
    /\ ~debug
    /\ resp.status = 500
    /\ build_search_query(resp.params, resp.today).raised

---------------------------------------------------------------------------
(* C11: for every entity, a delete() that is not asked for a hard delete   *)
(* (soft left at True) sets the soft-delete flag and leaves the row in     *)
(* the database; the row is removed only by delete(soft=False).            *)
C11_SoftByDefault ==
    (call.op = "delete" /\ ~call.raised)
        => /\ call.arg => committed[call.entity] = "deleted"
           /\ committed[call.entity] = "absent" => ~call.arg

NamesInOrder(p, q) ==
    \/ StrLess(p.last_name, q.last_name)
    \/ p.last_name = q.last_name /\ ~StrLess(q.first_name, p.first_name)

InSearchOrder(p, q) ==
    IF p.overall_rating.null THEN q.overall_rating.null /\ NamesInOrder(p, q)
    ELSE \/ q.overall_rating.null
         \/ p.overall_rating.n > q.overall_rating.n
         \/ p.overall_rating.n = q.overall_rating.n /\ NamesInOrder(p, q)

C13_RatingThenNames ==
    (IsSearch(resp) /\ (Has(resp.params, "page") => IsIntParam(resp.params, "page"))
                    /\ (Has(resp.params, "per_page") => IsIntParam(resp.params, "per_page")))
        => /\ resp.status = 200
           /\ \A a, b \in 1..Len(resp.body.results) :
                 (a < b /\ resp.body.results[a] # << >> /\ resp.body.results[b] # << >>)
                    => InSearchOrder(AthleteProfile(resp.body.results[a].athlete_id),
                                     AthleteProfile(resp.body.results[b].athlete_id))

(* C14: an exception that escapes a view function is converted by the      *)
(* path of the request: under /api/ the response is a JSON body with the   *)
(* single key error, elsewhere an error page; the status is 404 for        *)
(* not-found, the exception's own code for any other HTTP exception and    *)
(* 500 for everything else, and a 500 body never holds the text of the     *)
(* exception.                                                              *)
C14_TopLevelConversion ==
    call.op = "handle"
        => /\ call.status = IF call.exc.http THEN call.exc.code ELSE 500
           /\ call.exc.cls = "NotFound" => call.status = 404
           /\ IF startswith(call.path, ApiPrefix)
              THEN call.kind = "json" /\ DOMAIN call.body = {"error"}
              ELSE call.kind = "page"
           /\ call.status = 500
                 => IF call.kind = "json"
                    THEN call.body.error # call.exc.text
                    ELSE call.body # call.exc.text

\* an exception that is no HTTP exception, escaped on an API path
C14_Witness ==
    /\ call.op = "handle"
    /\ ~call.exc.http
    /\ startswith(call.path, ApiPrefix)
    /\ call.kind = "json"
    /\ call.status = 500

(* C15: to_dict of an entity whose columns can be read returns one key per *)
(* column; the value of a DateTime column and of a Date column alike is    *)
(* its ISO text, the value of any other column is copied unchanged.        *)
IsoText(column) ==
    IF column.type = "DateTime" THEN isoformat(column.value)
    ELSE IF column.type = "Date" THEN PyStr(iso_date(column.value))
    ELSE column.value

C15_DatesAsIsoText ==
    (call.op = "to_dict" /\ AthleteProfile(call.entity[2]).readable)
        => \A cols \in {columns(call.entity[2],
                                [j \in ProfileIds |-> pending[<<"AthleteProfile", j>>]])} :
              /\ DOMAIN call.result = {cols[k].name : k \in 1..Len(cols)}
              /\ \A k \in 1..Len(cols) : call.result[cols[k].name] = IsoText(cols[k])

FeaturedCap(args) ==
    IF IsIntParam(args, "limit") THEN min(IntParam(args, "limit"), 20) ELSE 6

C17_FeaturedAtMostLimit ==
    resp.endpoint = "featured"
        => /\ resp.status = 200
           /\ Len(resp.body) <= 20
           /\ FeaturedCap(resp.params) >= 0 => Len(resp.body) <= FeaturedCap(resp.params)
           /\ resp.computed
                 => \A i \in ResponseIds(resp) :
                       rows[i] = "live" /\ AthleteProfile(i).is_featured

====
